---- MODULE Spec2Model ----
\* Rate limiters of goit-algo2-hw-08: SlidingWindowRateLimiter (task_1.py) and
\* ThrottlingRateLimiter (task_2.py), each driven by a caller under a
\* non-decreasing clock.  Time is counted in whole clock ticks.
EXTENDS Integers, Sequences, FiniteSets, TLC

\* ---------------------------------------------------------------- bounds
MaxTime == 4        \* the clock runs from 0 to MaxTime
MaxAccepted == 3    \* accepted record_message calls in one run, over all identities
MaxSkew == 1        \* ticks the clock may advance between two reads inside one call

Ids == {"A", "B"}
WindowSizes == {-1, 0, 2}
MaxRequestsValues == {-1, 0, 1, 2}
MinIntervals == {-1, 0, 2}

VARIABLES
    policy,             \* which program runs: "SlidingWindow" or "Throttling"
    now,                \* time.time()
    window_size,        \* SlidingWindowRateLimiter.window_size
    max_requests,       \* SlidingWindowRateLimiter.max_requests
    user_messages,      \* SlidingWindowRateLimiter.user_messages
    min_interval,       \* ThrottlingRateLimiter.min_interval
    user_last_message,  \* ThrottlingRateLimiter.user_last_message
    accepted,           \* history: per identity, the timestamps stored by accepted record_message calls
    solo,               \* history: per identity, the limiter state had only that identity's calls been made
    last,               \* history: the most recent call, its clock value and its result
    deques,             \* concurrent callers: the deque objects, by reference (user_messages then holds references)
    threads,            \* concurrent callers: each thread's position inside record_message and its locals
    lost                \* history, concurrent callers: an accepted timestamp went to a deque the mapping no longer holds

vars == <<policy, now, window_size, max_requests, user_messages,
          min_interval, user_last_message, accepted, solo, last,
          deques, threads, lost>>

\* the variables of the concurrent callers
conc == <<deques, threads, lost>>
Threads == {"T1", "T2"}
Idle == [pc |-> "idle", id |-> "A", t |-> 0, ref |-> 0]

\* ---------------------------------------------------------------- dict helpers
EmptyDict == [k \in {} |-> 0]
HasKey(d, k) == k \in DOMAIN d
DelKey(d, k) == [x \in DOMAIN d \ {k} |-> d[x]]
SetKey(d, k, v) == [x \in DOMAIN d \cup {k} |-> IF x = k THEN v ELSE d[x]]
Max(a, b) == IF a >= b THEN a ELSE b

\* ---------------------------------------------------------------- SlidingWindowRateLimiter
\* an `if` in place of the `while`: at most one expired timestamp is dropped
popleft_once(timestamps, cutoff) ==
    IF timestamps # <<>> /\ Head(timestamps) < cutoff
    THEN Tail(timestamps)
    ELSE timestamps

\* timestamps[0] <= cutoff in place of timestamps[0] < cutoff
RECURSIVE popleft_expired_le(_, _)
popleft_expired_le(timestamps, cutoff) ==
    IF timestamps # <<>> /\ Head(timestamps) <= cutoff
    THEN popleft_expired_le(Tail(timestamps), cutoff)
    ELSE timestamps

\* while timestamps and timestamps[0] < cutoff: timestamps.popleft()
RECURSIVE popleft_expired(_, _)
popleft_expired(timestamps, cutoff) ==
    IF timestamps # <<>> /\ Head(timestamps) < cutoff
    THEN popleft_expired(Tail(timestamps), cutoff)
    ELSE timestamps

\* cleanup that trims every identity's deque, not only user_id's
cleanup_window_all(um, user_id, current_time) ==
    LET pruned == [k \in DOMAIN um |-> popleft_expired(um[k], current_time - window_size)]
    IN  [k \in {x \in DOMAIN um : pruned[x] # <<>>} |-> pruned[k]]

\* cleanup that trims the deque but never deletes the emptied entry
cleanup_window_keep(um, user_id, current_time) ==
    IF ~HasKey(um, user_id)
    THEN um
    ELSE SetKey(um, user_id, popleft_expired(um[user_id], current_time - window_size))

\* _cleanup_window(user_id, current_time) applied to the mapping um
cleanup_window(um, user_id, current_time) ==
    IF ~HasKey(um, user_id)
    THEN um
    ELSE LET timestamps == popleft_expired(um[user_id], current_time - window_size)
         IN  IF timestamps = <<>>
             THEN DelKey(um, user_id)
             ELSE SetKey(um, user_id, timestamps)

\* can_send_message that reserves the slot it reports as free
can_send_message_reserve(um, user_id, current_time) ==
    LET m == cleanup_window(um, user_id, current_time)
        ok == IF ~HasKey(m, user_id) THEN TRUE ELSE Len(m[user_id]) < max_requests
        timestamps == IF HasKey(m, user_id) THEN m[user_id] ELSE <<>>
    IN  [ret |-> ok,
         um  |-> IF ok THEN SetKey(m, user_id, Append(timestamps, current_time)) ELSE m]

\* can_send_message(user_id) at clock value current_time: result and mapping left behind
can_send_message(um, user_id, current_time) ==
    LET m == cleanup_window(um, user_id, current_time)
    IN  [ret |-> IF ~HasKey(m, user_id) THEN TRUE
                 ELSE Len(m[user_id]) < max_requests,
         um  |-> m]

\* record_message admitting while len(timestamps) <= max_requests
record_message_le(um, user_id, current_time) ==
    LET m1 == cleanup_window(um, user_id, current_time)
        m2 == IF ~HasKey(m1, user_id) THEN SetKey(m1, user_id, <<>>) ELSE m1
        timestamps == m2[user_id]
    IN  IF Len(timestamps) <= max_requests
        THEN [ret |-> TRUE, um |-> SetKey(m2, user_id, Append(timestamps, current_time))]
        ELSE [ret |-> FALSE, um |-> m2]

\* record_message(user_id) at clock value current_time
record_message(um, user_id, current_time) ==
    LET m1 == cleanup_window(um, user_id, current_time)
        m2 == IF ~HasKey(m1, user_id) THEN SetKey(m1, user_id, <<>>) ELSE m1
        timestamps == m2[user_id]
    IN  IF Len(timestamps) < max_requests
        THEN [ret |-> TRUE, um |-> SetKey(m2, user_id, Append(timestamps, current_time))]
        ELSE [ret |-> FALSE, um |-> m2]

\* time_until_next_allowed subtracting the wrong way round
time_until_next_allowed_sign(um, user_id, current_time) ==
    LET m == cleanup_window(um, user_id, current_time)
    IN  IF ~HasKey(m, user_id) THEN [ret |-> 0, um |-> m]
        ELSE IF Len(m[user_id]) < max_requests THEN [ret |-> 0, um |-> m]
        ELSE LET earliest == Head(m[user_id])
                 allow_time == earliest + window_size
                 wait == current_time - allow_time
             IN  [ret |-> Max(wait, 0), um |-> m]

\* time_until_next_allowed(user_id) at clock value current_time
time_until_next_allowed(um, user_id, current_time) ==
    LET m == cleanup_window(um, user_id, current_time)
    IN  IF ~HasKey(m, user_id) THEN [ret |-> 0, um |-> m]
        ELSE IF Len(m[user_id]) < max_requests THEN [ret |-> 0, um |-> m]
        ELSE LET earliest == Head(m[user_id])
                 allow_time == earliest + window_size
                 wait == allow_time - current_time
             IN  [ret |-> Max(wait, 0), um |-> m]

\* ---------------------------------------------------------------- ThrottlingRateLimiter
\* can_send_message comparing the clock itself, not the elapsed time
th_can_send_message_noelapsed(ulm, user_id, current_time) ==
    IF ~HasKey(ulm, user_id) THEN TRUE
    ELSE current_time >= min_interval

\* can_send_message with > in place of >=
th_can_send_message_gt(ulm, user_id, current_time) ==
    IF ~HasKey(ulm, user_id) THEN TRUE
    ELSE (current_time - ulm[user_id]) > min_interval

\* can_send_message(user_id) at clock value current_time
th_can_send_message(ulm, user_id, current_time) ==
    IF ~HasKey(ulm, user_id) THEN TRUE
    ELSE (current_time - ulm[user_id]) >= min_interval

\* record_message that stores the time also when it rejects
th_record_message_always(ulm, user_id, check_time, store_time) ==
    [ret |-> th_can_send_message(ulm, user_id, check_time),
     ulm |-> SetKey(ulm, user_id, store_time)]

\* record_message(user_id): the check reads the clock at check_time, the
\* store reads it again at store_time
th_record_message(ulm, user_id, check_time, store_time) ==
    IF th_can_send_message(ulm, user_id, check_time)
    THEN [ret |-> TRUE, ulm |-> SetKey(ulm, user_id, store_time)]
    ELSE [ret |-> FALSE, ulm |-> ulm]

\* time_until_next_allowed with the elapsed time taken with the wrong sign
th_time_until_next_allowed_sign(ulm, user_id, current_time) ==
    IF ~HasKey(ulm, user_id) THEN 0
    ELSE LET diff == ulm[user_id] - current_time
             wait == min_interval - diff
         IN  Max(wait, 0)

\* time_until_next_allowed(user_id) at clock value current_time
th_time_until_next_allowed(ulm, user_id, current_time) ==
    IF ~HasKey(ulm, user_id) THEN 0
    ELSE LET diff == current_time - ulm[user_id]
             wait == min_interval - diff
         IN  Max(wait, 0)

\* ---------------------------------------------------------------- state machine
NoCall == [op |-> "none", id |-> "A", t |-> 0, ret |-> FALSE, wait |-> 0]

\* SlidingWindowRateLimiter(window_size, max_requests)
InitSlidingWindow ==
    /\ policy = "SlidingWindow"
    /\ window_size \in WindowSizes
    /\ max_requests \in MaxRequestsValues
    /\ user_messages = EmptyDict
    /\ min_interval = 0
    /\ user_last_message = EmptyDict

\* ThrottlingRateLimiter(min_interval)
InitThrottling ==
    /\ policy = "Throttling"
    /\ min_interval \in MinIntervals
    /\ user_last_message = EmptyDict
    /\ window_size = 0
    /\ max_requests = 0
    /\ user_messages = EmptyDict

\* no concurrent caller
NoThreads ==
    /\ deques = <<>>
    /\ threads = [th \in Threads |-> Idle]
    /\ lost = FALSE

Init ==
    /\ now = 0
    /\ accepted = [i \in Ids |-> <<>>]
    /\ solo = [i \in Ids |-> EmptyDict]
    /\ last = NoCall
    /\ NoThreads
    /\ (InitSlidingWindow \/ InitThrottling)

\* accepted events of the run so far, over all identities
RECURSIVE SumLen(_, _)
SumLen(f, S) == IF S = {} THEN 0
                ELSE LET x == CHOOSE y \in S : TRUE IN Len(f[x]) + SumLen(f, S \ {x})
TotalAccepted == SumLen(accepted, Ids)

config == <<policy, window_size, max_requests, min_interval>>

\* the clock advances between calls
Tick ==
    /\ now < MaxTime
    /\ now' = now + 1
    /\ UNCHANGED <<conc, config, user_messages, user_last_message, accepted, solo, last>>

SwCanSend(id) ==
    /\ policy = "SlidingWindow"
    /\ LET r == can_send_message(user_messages, id, now)
       IN  /\ user_messages' = r.um
           /\ solo' = [solo EXCEPT ![id] = can_send_message(solo[id], id, now).um]
           /\ last' = [op |-> "can_send", id |-> id, t |-> now, ret |-> r.ret, wait |-> 0]
    /\ UNCHANGED <<conc, config, now, user_last_message, accepted>>

SwRecord(id) ==
    /\ policy = "SlidingWindow"
    /\ LET r == record_message(user_messages, id, now)
       IN  /\ r.ret => TotalAccepted < MaxAccepted
           /\ user_messages' = r.um
           /\ solo' = [solo EXCEPT ![id] = record_message(solo[id], id, now).um]
           /\ accepted' = IF r.ret THEN [accepted EXCEPT ![id] = Append(@, now)]
                          ELSE accepted
           /\ last' = [op |-> "record", id |-> id, t |-> now, ret |-> r.ret, wait |-> 0]
    /\ UNCHANGED <<conc, config, now, user_last_message>>

SwTimeUntil(id) ==
    /\ policy = "SlidingWindow"
    /\ LET r == time_until_next_allowed(user_messages, id, now)
       IN  /\ user_messages' = r.um
           /\ solo' = [solo EXCEPT ![id] = time_until_next_allowed(solo[id], id, now).um]
           /\ last' = [op |-> "time_until", id |-> id, t |-> now, ret |-> FALSE, wait |-> r.ret]
    /\ UNCHANGED <<conc, config, now, user_last_message, accepted>>

ThCanSend(id) ==
    /\ policy = "Throttling"
    /\ last' = [op |-> "can_send", id |-> id, t |-> now,
                ret |-> th_can_send_message(user_last_message, id, now), wait |-> 0]
    /\ UNCHANGED <<conc, config, now, user_messages, user_last_message, accepted, solo>>

\* record_message reads the clock twice: the check at now, the store at
\* store_time, to which the clock has advanced meanwhile
ThRecordTo(id, store_time) ==
    /\ policy = "Throttling"
    /\ LET r == th_record_message(user_last_message, id, now, store_time)
       IN  /\ r.ret => TotalAccepted < MaxAccepted
           /\ user_last_message' = r.ulm
           /\ solo' = [solo EXCEPT ![id] = th_record_message(solo[id], id, now, store_time).ulm]
           /\ accepted' = IF r.ret THEN [accepted EXCEPT ![id] = Append(@, store_time)]
                          ELSE accepted
           /\ last' = [op |-> "record", id |-> id, t |-> now, ret |-> r.ret, wait |-> 0]
    /\ now' = store_time
    /\ UNCHANGED <<conc, config, user_messages>>

ThRecord(id, skew) ==
    /\ now + skew <= MaxTime
    /\ ThRecordTo(id, now + skew)

ThTimeUntil(id) ==
    /\ policy = "Throttling"
    /\ last' = [op |-> "time_until", id |-> id, t |-> now, ret |-> FALSE,
                wait |-> th_time_until_next_allowed(user_last_message, id, now)]
    /\ UNCHANGED <<conc, config, now, user_messages, user_last_message, accepted, solo>>

Next ==
    \/ Tick
    \/ \E id \in Ids : SwCanSend(id)
    \/ \E id \in Ids : SwRecord(id)
    \/ \E id \in Ids : SwTimeUntil(id)
    \/ \E id \in Ids : ThCanSend(id)
    \/ \E id \in Ids, skew \in 0..MaxSkew : ThRecord(id, skew)
    \/ \E id \in Ids : ThTimeUntil(id)

Spec == Init /\ [][Next]_vars

\* ---------------------------------------------------------------- the demo configurations
\* SlidingWindowRateLimiter(window_size=10, max_requests=1), clock in seconds;
\* ThrottlingRateLimiter(min_interval=10.0), clock in tenths of a second
InitScenario ==
    /\ now = 0
    /\ NoThreads
    /\ accepted = [i \in Ids |-> <<>>]
    /\ solo = [i \in Ids |-> EmptyDict]
    /\ last = NoCall
    /\ user_messages = EmptyDict
    /\ user_last_message = EmptyDict
    /\ \/ policy = "SlidingWindow" /\ window_size = 10 /\ max_requests = 1 /\ min_interval = 0
       \/ policy = "Throttling" /\ min_interval = 100 /\ window_size = 0 /\ max_requests = 0

\* the instants at which the caller makes its calls
ScenarioClock ==
    IF policy = "SlidingWindow" THEN 0..12 ELSE {0, 1, 50, 99, 100, 101}

\* the clock advances between calls, to a later instant
TickScenario ==
    /\ \E t \in ScenarioClock : t > now /\ now' = t
    /\ UNCHANGED <<conc, config, user_messages, user_last_message, accepted, solo, last>>

NextScenario ==
    \/ TickScenario
    \/ \E id \in Ids : SwCanSend(id)
    \/ \E id \in Ids : SwRecord(id)
    \/ \E id \in Ids : SwTimeUntil(id)
    \/ \E id \in Ids : ThCanSend(id)
    \/ \E id \in Ids : \E t \in ScenarioClock : t >= now /\ ThRecordTo(id, t)
    \/ \E id \in Ids : ThTimeUntil(id)

SpecScenario == InitScenario /\ [][NextScenario]_vars

\* ---------------------------------------------------------------- concurrent callers
\* Two threads call record_message on one shared limiter.  The code takes no
\* lock, so a thread switch may fall between any two statements; the steps
\* below are the statements of record_message grouped into chunks.
InitConcurrent ==
    /\ now = 0
    /\ accepted = [i \in Ids |-> <<>>]
    /\ solo = [i \in Ids |-> EmptyDict]
    /\ last = NoCall
    /\ NoThreads
    /\ user_messages = EmptyDict
    /\ user_last_message = EmptyDict
    /\ \/ policy = "SlidingWindow" /\ window_size = 2 /\ max_requests \in {1, 2}
             /\ min_interval = 0
       \/ policy = "Throttling" /\ min_interval = 2 /\ window_size = 0 /\ max_requests = 0

\* calls in progress
InFlight == Cardinality({th \in Threads : threads[th].pc # "idle"})

TickConcurrent ==
    /\ now < MaxTime
    /\ now' = now + 1
    /\ UNCHANGED <<conc, config, user_messages, user_last_message, accepted, solo, last>>

\* SlidingWindowRateLimiter.record_message, up to `timestamps = self.user_messages[user_id]`:
\* read the clock, _cleanup_window on the shared deque, create the deque if
\* the key is missing, keep a reference to the deque
CEnter(th, id) ==
    /\ policy = "SlidingWindow"
    /\ threads[th].pc = "idle"
    /\ TotalAccepted + InFlight < MaxAccepted
    /\ LET trimmed == IF HasKey(user_messages, id)
                      THEN popleft_expired(deques[user_messages[id]], now - window_size)
                      ELSE <<>>
           d1 == IF HasKey(user_messages, id)
                 THEN [deques EXCEPT ![user_messages[id]] = trimmed]
                 ELSE deques
           m1 == IF HasKey(user_messages, id) /\ trimmed = <<>>
                 THEN DelKey(user_messages, id)
                 ELSE user_messages
           d2 == IF HasKey(m1, id) THEN d1 ELSE Append(d1, <<>>)
           m2 == IF HasKey(m1, id) THEN m1 ELSE SetKey(m1, id, Len(d2))
       IN  /\ deques' = d2
           /\ user_messages' = m2
           /\ threads' = [threads EXCEPT ![th] =
                            [pc |-> "check", id |-> id, t |-> now, ref |-> m2[id]]]
    /\ UNCHANGED <<config, now, user_last_message, accepted, solo, last, lost>>

\* if len(timestamps) < self.max_requests
CCheck(th) ==
    /\ policy = "SlidingWindow"
    /\ threads[th].pc = "check"
    /\ threads' = [threads EXCEPT ![th] =
                     IF Len(deques[threads[th].ref]) < max_requests
                     THEN [@ EXCEPT !.pc = "append"]
                     ELSE Idle]
    /\ UNCHANGED <<config, now, user_messages, user_last_message, accepted, solo, last,
                   deques, lost>>

\* timestamps.append(current_time); return True
CAppend(th) ==
    /\ policy = "SlidingWindow"
    /\ threads[th].pc = "append"
    /\ LET me == threads[th]
       IN  /\ deques' = [deques EXCEPT ![me.ref] = Append(@, me.t)]
           /\ accepted' = [accepted EXCEPT ![me.id] = Append(@, me.t)]
           /\ lost' = (lost \/ ~(HasKey(user_messages, me.id) /\ user_messages[me.id] = me.ref))
    /\ threads' = [threads EXCEPT ![th] = Idle]
    /\ UNCHANGED <<config, now, user_messages, user_last_message, solo, last>>

\* ThrottlingRateLimiter.record_message: if self.can_send_message(user_id)
CThCheck(th, id) ==
    /\ policy = "Throttling"
    /\ threads[th].pc = "idle"
    /\ TotalAccepted + InFlight < MaxAccepted
    /\ threads' = [threads EXCEPT ![th] =
                     IF th_can_send_message(user_last_message, id, now)
                     THEN [pc |-> "store", id |-> id, t |-> now, ref |-> 0]
                     ELSE Idle]
    /\ UNCHANGED <<config, now, user_messages, user_last_message, accepted, solo, last,
                   deques, lost>>

\* self.user_last_message[user_id] = time.time(); return True
CThStore(th) ==
    /\ policy = "Throttling"
    /\ threads[th].pc = "store"
    /\ user_last_message' = SetKey(user_last_message, threads[th].id, now)
    /\ accepted' = [accepted EXCEPT ![threads[th].id] = Append(@, now)]
    /\ threads' = [threads EXCEPT ![th] = Idle]
    /\ UNCHANGED <<config, now, user_messages, solo, last, deques, lost>>

NextConcurrent ==
    \/ TickConcurrent
    \/ \E th \in Threads, id \in Ids : CEnter(th, id)
    \/ \E th \in Threads : CCheck(th)
    \/ \E th \in Threads : CAppend(th)
    \/ \E th \in Threads, id \in Ids : CThCheck(th, id)
    \/ \E th \in Threads : CThStore(th)

SpecConcurrent == InitConcurrent /\ [][NextConcurrent]_vars

\* ---------------------------------------------------------------- properties
Times == now..MaxTime
IsSW == policy = "SlidingWindow"
IsTH == policy = "Throttling"

\* number of timestamps of seq inside the closed interval [lo, hi]
CountIn(seq, lo, hi) == Cardinality({i \in 1..Len(seq) : lo <= seq[i] /\ seq[i] <= hi})

\* C1: sliding window, cap invariant.  For every identity and every instant t,
\* the accepted record_message timestamps inside the trailing window
\* [t - window_size, t] number at most max_requests (none when max_requests < 0).
C1_CapInvariant ==
    IsSW => \A id \in Ids : \A t \in 0..MaxTime :
        CountIn(accepted[id], t - window_size, t) <= Max(max_requests, 0)

\* the cap is reached, the window has rolled once, and a record was rejected
C1_Witness ==
    /\ IsSW /\ window_size = 2 /\ max_requests = 2
    /\ last.op = "record" /\ ~last.ret
    /\ Len(accepted[last.id]) = 3
    /\ CountIn(accepted[last.id], now - window_size, now) = 2

\* C2: throttling, spacing.  For every identity, consecutive accepted
\* record_message calls stored timestamps at least min_interval apart.
C2_ThrottlingSpacing ==
    IsTH => \A id \in Ids : \A i \in 1..(Len(accepted[id]) - 1) :
        accepted[id][i + 1] - accepted[id][i] >= min_interval

\* two accepted events on one identity, then a rejected record
C2_Witness ==
    /\ IsTH /\ min_interval = 2
    /\ last.op = "record" /\ ~last.ret
    /\ Len(accepted[last.id]) >= 2

\* C3: sliding window, wait-time consistency.  At every instant from now on,
\* can_send_message is False exactly when time_until_next_allowed is > 0, and
\* True exactly when it is 0 (stated here for window_size > 0, max_requests >= 1).
C3_WaitConsistency ==
    (IsSW /\ window_size > 0 /\ max_requests >= 1) => \A id \in Ids : \A t \in Times :
        LET c == can_send_message(user_messages, id, t).ret
            w == time_until_next_allowed(user_messages, id, t).ret
        IN  /\ (c = FALSE) <=> (w > 0)
            /\ (c = TRUE) <=> (w = 0)

\* C4: throttling, wait-time consistency.  At every instant from now on and
\* for every min_interval, can_send_message is False exactly when
\* time_until_next_allowed is > 0, and True exactly when it is 0.
C4_ThWaitConsistency ==
    IsTH => \A id \in Ids : \A t \in Times :
        LET c == th_can_send_message(user_last_message, id, t)
            w == th_time_until_next_allowed(user_last_message, id, t)
        IN  /\ (c = FALSE) <=> (w > 0)
            /\ (c = TRUE) <=> (w = 0)

\* time_until_next_allowed has just returned a positive wait for a throttled identity
C4_Witness ==
    /\ IsTH /\ last.op = "time_until" /\ last.wait > 0 /\ last.t = now
    /\ ~th_can_send_message(user_last_message, last.id, now)

\* C5: sliding window, a rejected record_message leaves the whole mapping
\* (key set and every sequence) as it was before the call.
C5_RejectedRecordNoMutation ==
    [][\A id \in Ids : (SwRecord(id) /\ ~last'.ret) => user_messages' = user_messages]_vars

\* C6: sliding window, check/record agreement.  When record_message(id) is
\* the call made right after can_send_message(id), at the same clock value,
\* it returns what can_send_message returned.
C6_CheckRecordAgreement ==
    [][\A id \in Ids :
        (last.op = "can_send" /\ last.id = id /\ last.t = now /\ SwRecord(id))
            => last'.ret = last.ret]_vars

\* C7: sliding window with max_requests = 0 denies all traffic: every
\* can_send_message and record_message call returns False, for every identity.
C7_ZeroCapDeniesAll ==
    (IsSW /\ max_requests = 0 /\ last.op \in {"can_send", "record"}) => ~last.ret

\* the stored entry of identity id in mapping d: <<>> when absent, <<value>> when present
Entry(d, id) == IF HasKey(d, id) THEN <<d[id]>> ELSE <<>>

\* C8: identity independence, both limiters.  Every identity's stored entry,
\* and the result of every operation on it at every instant from now on, are
\* what they would be had the calls on all other identities never been made.
C8_IdentityIndependence ==
    /\ IsSW => \A id \in Ids :
        /\ Entry(user_messages, id) = Entry(solo[id], id)
        /\ \A t \in Times :
            /\ can_send_message(user_messages, id, t).ret = can_send_message(solo[id], id, t).ret
            /\ record_message(user_messages, id, t).ret = record_message(solo[id], id, t).ret
            /\ time_until_next_allowed(user_messages, id, t).ret
                 = time_until_next_allowed(solo[id], id, t).ret
    /\ IsTH => \A id \in Ids :
        /\ Entry(user_last_message, id) = Entry(solo[id], id)
        /\ \A t \in Times :
            /\ th_can_send_message(user_last_message, id, t) = th_can_send_message(solo[id], id, t)
            /\ th_time_until_next_allowed(user_last_message, id, t)
                 = th_time_until_next_allowed(solo[id], id, t)

\* identity A's quota is exhausted and a record on B, whose own earlier
\* event has expired, has just been accepted
C8_Witness ==
    /\ IsSW /\ window_size = 2 /\ max_requests = 1
    /\ ~can_send_message(user_messages, "A", now).ret
    /\ last.op = "record" /\ last.id = "B" /\ last.ret /\ last.t = now
    /\ Len(accepted["A"]) = 1 /\ Len(accepted["B"]) = 2

C10_NoEmptySequence ==
    IsSW => \A id \in DOMAIN user_messages : user_messages[id] # <<>>

\* C11: sliding window, monotonic pruning (window_size >= 0).  Every stored
\* sequence is non-decreasing, and right after any of the three operations
\* on identity id at clock value now, every timestamp still stored for id,
\* at any position, is >= now - window_size.
C11_MonotonicPruning ==
    IsSW =>
        /\ \A id \in DOMAIN user_messages :
             \A i \in 1..(Len(user_messages[id]) - 1) :
                 user_messages[id][i] <= user_messages[id][i + 1]
        /\ (window_size >= 0 /\ last.op # "none" /\ last.t = now
                /\ HasKey(user_messages, last.id)) =>
             \A i \in 1..Len(user_messages[last.id]) :
                 user_messages[last.id][i] >= now - window_size

\* two timestamps were stored, both have expired, and the call that followed
\* trimmed both while a newer one is kept
C11_Witness ==
    /\ IsSW /\ window_size = 2 /\ max_requests = 2
    /\ last.op = "record" /\ last.ret /\ last.t = now
    /\ Len(accepted[last.id]) = 3
    /\ accepted[last.id][2] < now - window_size
    /\ user_messages[last.id] = <<now>>

\* C12: sliding window, window_size=10 and max_requests=1, an identity with
\* one accepted event, at t0.  Every record_message at t0 < t < t0+10 returns
\* False and time_until_next_allowed then returns t0+10-t; record_message at
\* t0+11 returns True.
C12_SlidingScenario ==
    (IsSW /\ window_size = 10 /\ max_requests = 1) =>
        \A id \in Ids : Len(accepted[id]) = 1 =>
            LET t0 == accepted[id][1]
            IN  \A t \in ScenarioClock : t >= now =>
                    LET r == record_message(user_messages, id, t)
                    IN  /\ (t0 < t /\ t < t0 + 10) =>
                            /\ ~r.ret
                            /\ time_until_next_allowed(r.um, id, t).ret = t0 + 10 - t
                        /\ (t = t0 + 11) => r.ret

\* accepted at 0, rejected meanwhile, accepted again at 11
C12_Witness ==
    /\ IsSW /\ window_size = 10 /\ max_requests = 1
    /\ last.op = "record" /\ last.ret /\ now = 11
    /\ accepted[last.id] = <<0, 11>>

\* C13: throttling.  record_message accepts exactly when the identity has no
\* accepted event yet or now minus the time of its last accepted event is
\* >= min_interval; with min_interval = 10 s (100 tenths) and one event
\* accepted at 0, record_message at 9.9 s returns False and at 10.0 s True.
C13_ThrottlingBoundary ==
    IsTH => \A id \in Ids :
        /\ \A t \in ScenarioClock : t >= now =>
             (th_record_message(user_last_message, id, t, t).ret
                <=> \/ accepted[id] = <<>>
                    \/ t - accepted[id][Len(accepted[id])] >= min_interval)
        /\ (min_interval = 100 /\ accepted[id] = <<0>>) =>
             /\ now <= 99 => ~th_record_message(user_last_message, id, 99, 99).ret
             /\ now <= 100 => th_record_message(user_last_message, id, 100, 100).ret

\* accepted at 0 and again at exactly 10.0 s
C13_Witness ==
    /\ IsTH /\ min_interval = 100
    /\ last.op = "record" /\ last.ret /\ last.t = 100
    /\ accepted[last.id] = <<0, 100>>

\* C15: no error state in single-threaded use.  For every configuration,
\* identity and instant from now on: time_until_next_allowed reads
\* timestamps[0] only of a non-empty sequence, every boolean operation returns
\* a boolean and every duration is >= 0, for both limiters.
C15_NoErrorState ==
    /\ IsSW => \A id \in Ids : \A t \in Times :
         LET m == cleanup_window(user_messages, id, t)
         IN  /\ (HasKey(m, id) /\ ~(Len(m[id]) < max_requests)) => m[id] # <<>>
             /\ can_send_message(user_messages, id, t).ret \in BOOLEAN
             /\ record_message(user_messages, id, t).ret \in BOOLEAN
             /\ HasKey(record_message(user_messages, id, t).um, id)
             /\ time_until_next_allowed(user_messages, id, t).ret >= 0
    /\ IsTH => \A id \in Ids : \A t \in Times :
         /\ th_can_send_message(user_last_message, id, t) \in BOOLEAN
         /\ th_record_message(user_last_message, id, t, t).ret \in BOOLEAN
         /\ th_time_until_next_allowed(user_last_message, id, t) >= 0

\* a degenerate configuration (window_size = 0) in which
\* time_until_next_allowed has just read timestamps[0] of an identity at its cap
C15_Witness ==
    /\ IsSW /\ window_size = 0 /\ max_requests >= 1
    /\ last.op = "time_until" /\ last.t = now
    /\ HasKey(user_messages, last.id)
    /\ Len(user_messages[last.id]) >= max_requests

\* C16: sliding window, time_until_next_allowed is a sufficient wait (stated
\* here for window_size > 0, max_requests >= 1).  If record_message is
\* rejected at t and time_until_next_allowed at t returns d, then d > 0 and,
\* with nothing accepted in between, record_message at t + d is accepted.
C16_SufficientWait ==
    (IsSW /\ window_size > 0 /\ max_requests >= 1) =>
        \A id \in Ids : \A t \in Times :
            LET r == record_message(user_messages, id, t)
                d == time_until_next_allowed(r.um, id, t).ret
            IN  ~r.ret => (d > 0 /\ record_message(r.um, id, t + d).ret)

\* the accepted timestamps of seq that are >= cutoff
Live(seq, cutoff) == LET Kept(x) == x >= cutoff IN SelectSeq(seq, Kept)

\* C17: sliding window, can_send_message and time_until_next_allowed are
\* peeks.  Whatever peeks were made, at every instant t from now on the
\* timestamps counted inside the window after the cleanup are exactly the
\* accepted record_message timestamps >= t - window_size, and the result of
\* record_message is decided by their number alone.
C17_PeekNoReservation ==
    IsSW => \A id \in Ids : \A t \in Times :
        LET live == Live(accepted[id], t - window_size)
        IN  /\ Entry(cleanup_window(user_messages, id, t), id)
                 = IF live = <<>> THEN <<>> ELSE <<live>>
            /\ record_message(user_messages, id, t).ret <=> (Len(live) < max_requests)

\* a peek has trimmed an expired timestamp and added nothing
C17_Witness ==
    /\ IsSW /\ window_size = 2 /\ max_requests = 2
    /\ last.op \in {"can_send", "time_until"} /\ last.t = now
    /\ Len(accepted[last.id]) = 2
    /\ HasKey(user_messages, last.id) /\ Len(user_messages[last.id]) = 1

\* C18: throttling, the state changes only on acceptance and entries are
\* never removed.  can_send_message, time_until_next_allowed and a rejected
\* record_message leave user_last_message unchanged, an accepted
\* record_message(id) changes only id's entry, and no key is ever dropped.
C18_ThrottlingFrame ==
    [][IsTH =>
        /\ \A id \in Ids :
            /\ (ThCanSend(id) \/ ThTimeUntil(id)) => user_last_message' = user_last_message
            /\ \A skew \in 0..MaxSkew : ThRecord(id, skew) =>
                /\ ~last'.ret => user_last_message' = user_last_message
                /\ \A other \in Ids \ {id} :
                     Entry(user_last_message', other) = Entry(user_last_message, other)
        /\ DOMAIN user_last_message \subseteq DOMAIN user_last_message']_vars

\* a rejected record_message on an identity that keeps its entry
C18_Witness ==
    /\ IsTH /\ min_interval = 2
    /\ last.op = "record" /\ ~last.ret /\ last.t = now
    /\ HasKey(user_last_message, last.id)
    /\ DOMAIN user_last_message = Ids

C20_SingleClockRead ==
    (last.op = "record" /\ last.ret) =>
        /\ IsSW => user_messages[last.id][Len(user_messages[last.id])] = last.t
        /\ IsTH => user_last_message[last.id] = last.t

\* C14: concurrent callers are serialized by the limiter.  Under every
\* interleaving of two threads calling record_message, the cap invariant
\* (sliding window) and the minimum spacing (throttling) hold and no accepted
\* timestamp is lost.
C14_ConcurrentSerialized ==
    /\ IsSW => \A id \in Ids : \A t \in 0..MaxTime :
         CountIn(accepted[id], t - window_size, t) <= max_requests
    /\ IsTH => \A id \in Ids : \A i \in 1..(Len(accepted[id]) - 1) :
         accepted[id][i + 1] - accepted[id][i] >= min_interval
    /\ ~lost

====
